---- MODULE Spec2Model ----
(***************************************************************************)
(* FTMS Control Point handler and telemetry loop of main.py (Bumble GATT   *)
(* server).  State: the module globals (machine state, connection_states), *)
(* the handler invocations suspended in indicate_characteristic, and the   *)
(* last Control Point write together with the response handed to the       *)
(* transport.                                                              *)
(***************************************************************************)
EXTENDS Integers, Sequences, FiniteSets, TLC

(* ------------------------------ bounds --------------------------------- *)
NumConns == 2
MaxInFlight == 1
MaxSuspended == 2

Connections == 1..NumConns

(* ------------------------- protocol constants -------------------------- *)
RESPONSE_SUCCESS == 1
RESPONSE_NOT_SUPPORTED == 2
RESPONSE_INVALID_PARAMETER == 3
RESPONSE_OPERATION_FAILED == 4
RESPONSE_CONTROL_NOT_PERMITTED == 5

CP_REQUEST_CONTROL == 0
CP_RESET == 1
CP_SET_TARGET_SPEED == 2
CP_SET_TARGET_INCLINATION == 3
CP_SET_TARGET_RESISTANCE == 4
CP_SET_TARGET_POWER == 5
CP_START_OR_RESUME == 7
CP_STOP_OR_PAUSE == 8

STATUS_IDLE == 1
STATUS_ACTIVE == 2
STATUS_PAUSED == 3
STATUS_COMPLETED == 4

(* ------------------------------ struct --------------------------------- *)
\* struct.pack("<h", v): two's complement, little-endian, 16 bits
pack_h(v) == <<(v % 65536) % 256, (v % 65536) \div 256>>

\* struct.unpack("<h", b)[0] for a 2-byte sequence b
unpack_h(b) ==
    LET u == b[1] + 256 * b[2]
    IN  IF u >= 32768 THEN u - 65536 ELSE u

\* struct.pack("<hhh", a, b, c)
pack_hhh(a, b, c) == pack_h(a) \o pack_h(b) \o pack_h(c)

\* struct.unpack("<hhh", b)
unpack_hhh(b) ==
    <<unpack_h(SubSeq(b, 1, 2)), unpack_h(SubSeq(b, 3, 4)), unpack_h(SubSeq(b, 5, 6))>>

RESISTANCE_RANGE == pack_hhh(0, 3000, 10)
POWER_RANGE == pack_hhh(0, 2000, 1)

\* Python's value[1:3]: the bytes at indices 1 and 2, fewer if the value is short
slice_1_3(value) ==
    SubSeq(value, 2, IF Len(value) < 3 THEN Len(value) ELSE 3)

\* int(x) of the float num/den: truncation toward zero
int_trunc(num, den) ==
    IF num >= 0 THEN num \div den ELSE -((-num) \div den)

py_max(a, b) == IF b > a THEN b ELSE a
py_min(a, b) == IF b < a THEN b ELSE a

(* ------------------------------- inputs -------------------------------- *)
\* resistance values written by peers: both limits of the range, their
\* outer neighbours, the scenario value 100 and 15, which 10 does not divide
ResistanceValues == {-1, 0, 15, 100, 3000, 3001}

\* power values written by peers: both limits of the range and their outer
\* neighbours
PowerValues == {-1, 0, 2000, 2001}

\* writes of the op codes that take no parameter: the handled ones, the
\* declared but unhandled 0x02 and 0x03 and the undeclared 0xFF, bare or
\* followed by bytes the handler does not read
PlainWrites ==
    {<<op>> : op \in {0, 1, 2, 3, 7, 255}} \cup {<<0, 1>>, <<2, 100, 0>>}

\* payloads of SetTargetResistance and SetTargetPower: none, one byte, a
\* sint16, a sint16 followed by one more byte
TargetPayloads(values) ==
    {<<>>, <<100>>} \cup {pack_h(v) : v \in values} \cup {pack_h(100) \o <<255>>}

\* payloads of StopOrPause: none, a sub-value, a sub-value followed by a byte
StopPayloads == {<<>>, <<1>>, <<2>>, <<3>>, <<2, 0>>}

\* the bytes of a Control Point write; <<>> is the empty write
WriteValues ==
    {<<>>} \cup PlainWrites
           \cup {<<4>> \o p : p \in TargetPayloads(ResistanceValues)}
           \cup {<<5>> \o p : p \in TargetPayloads(PowerValues)}
           \cup {<<8>> \o p : p \in StopPayloads}

VARIABLES
    current_resistance,
    current_power,
    current_speed,
    current_cadence,
    current_hr,
    training_status,
    connection_states,      \* connection -> [has_control]
    awaiting_indication,    \* number of handlers suspended in indicate_characteristic
    last_write,             \* the last write received and the indication it sent
    indoor_bike_data_char,  \* the module global read by update_bike_data
    tick_pc,                \* position of periodic_update_task
    data,                   \* the packet of the last generate_indoor_bike_data call
    to_notify,              \* connections update_bike_data has still to visit
    notified,               \* notifications sent by the current update_bike_data
    snapshot,               \* the values data was generated from
    suspended,              \* connection -> its handlers suspended in indicate_characteristic
    connections,            \* device.connections: the open connections
    pre_command,            \* the state before the last handled write
    outcome                 \* how the last finished indication ended

MachineState ==
    <<current_resistance, current_power, current_speed, current_cadence,
      current_hr, training_status>>

telemetry_vars ==
    <<indoor_bike_data_char, tick_pc, data, to_notify, notified, snapshot>>

transport_vars ==
    <<suspended, connections, pre_command, outcome>>

vars ==
    <<current_resistance, current_power, current_speed, current_cadence,
      current_hr, training_status, connection_states, awaiting_indication,
      last_write, indoor_bike_data_char, tick_pc, data, to_notify, notified,
      snapshot, suspended, connections, pre_command, outcome>>

\* the module globals at startup
InitGlobals ==
    /\ current_resistance = 0
    /\ current_power = 100
    /\ current_speed = 1000
    /\ current_cadence = 140
    /\ current_hr = 0
    /\ training_status = STATUS_IDLE
    /\ connection_states = <<>>

\* no write received, no handler suspended, every connection open
InitTransport ==
    /\ awaiting_indication = 0
    /\ last_write = [conn |-> 0, value |-> <<>>, response |-> <<>>, to |-> 0]
    /\ suspended = [c \in Connections |-> 0]
    /\ connections = Connections
    /\ pre_command = <<>>
    /\ outcome = "none"

\* periodic_update_task before its first turn
InitTelemetry ==
    /\ tick_pc = "sleep"
    /\ data = <<>>
    /\ to_notify = <<>>
    /\ notified = <<>>
    /\ snapshot = <<>>

\* run_server assigns its Characteristic to a local indoor_bike_data_char
\* (only control_point_char is declared global), so the module global that
\* update_bike_data reads keeps its None
Init ==
    /\ InitGlobals
    /\ InitTransport
    /\ InitTelemetry
    /\ indoor_bike_data_char = "None"

(* --------------------- send_control_point_response --------------------- *)
\* mutant: the result code is put before the request op code
send_control_point_response_swapped(connection, request_op_code, response_code) ==
    <<128, response_code, request_op_code>>

\* control_point_char is assigned in run_server before the handler is
\* installed and connection is never None, so every call reaches
\* indicate_characteristic with bytearray([0x80, request_op_code, response_code]).
send_control_point_response(connection, request_op_code, response_code) ==
    <<128, request_op_code, response_code>>

\* "await connection.indicate_characteristic(control_point_char, response)":
\* the connection the indication goes to
indicate_to(connection) == connection

(* ------------------------ on_control_point_write ----------------------- *)
\* "if connection not in connection_states: connection_states[connection] = ..."
get_or_init(connection) ==
    IF connection \in DOMAIN connection_states
    THEN connection_states
    ELSE (connection :> [has_control |-> FALSE]) @@ connection_states

\* mutant: the authorization check always passes
get_has_control_always(conn_state) == TRUE

\* conn_state.get('has_control', False)
get_has_control(conn_state) == conn_state.has_control

\* mutant: RequestControl flips has_control instead of setting it
grant_control_toggle(conn_state) == [conn_state EXCEPT !.has_control = ~@]

\* conn_state['has_control'] = True
grant_control(conn_state) == [conn_state EXCEPT !.has_control = TRUE]

min_res == unpack_hhh(RESISTANCE_RANGE)[1]
max_res == unpack_hhh(RESISTANCE_RANGE)[2]
min_pwr == unpack_hhh(POWER_RANGE)[1]
max_pwr == unpack_hhh(POWER_RANGE)[2]

\* mutant: the lower limit is not checked
resistance_out_of_range_no_lower(resistance) ==
    resistance > max_res

\* "if resistance < min_res or resistance > max_res"
resistance_out_of_range(resistance) ==
    resistance < min_res \/ resistance > max_res

\* mutant: the upper limit is not checked
power_out_of_range_no_upper(power) ==
    power < min_pwr

\* mutant: the upper limit itself is refused
power_out_of_range_exclusive(power) ==
    power < min_pwr \/ power >= max_pwr

\* "if power < min_pwr or power > max_pwr"
power_out_of_range(power) ==
    power < min_pwr \/ power > max_pwr

\* mutant: the resistance is added without the division by 10
derived_power_no_division(resistance) ==
    py_max(50, py_min(2000, 100 + resistance))

\* max(50, min(2000, int(100 + (resistance / 10))))
derived_power(resistance) ==
    py_max(50, py_min(2000, int_trunc(1000 + resistance, 10)))

\* The checks of the CP_SET_TARGET_RESISTANCE branch in the order of the code:
\* the result code of the first one that fails, RESPONSE_SUCCESS if none does.
set_target_resistance_result(conn_state, value) ==
    IF ~get_has_control(conn_state) THEN RESPONSE_CONTROL_NOT_PERMITTED
    ELSE IF Len(value) < 3 THEN RESPONSE_INVALID_PARAMETER
    ELSE IF resistance_out_of_range(unpack_h(slice_1_3(value)))
         THEN RESPONSE_INVALID_PARAMETER
    ELSE RESPONSE_SUCCESS

\* mutant: the payload length is checked before the authorization
set_target_power_result_length_first(conn_state, value) ==
    IF Len(value) < 3 THEN RESPONSE_INVALID_PARAMETER
    ELSE IF ~get_has_control(conn_state) THEN RESPONSE_CONTROL_NOT_PERMITTED
    ELSE IF power_out_of_range(unpack_h(slice_1_3(value)))
         THEN RESPONSE_INVALID_PARAMETER
    ELSE RESPONSE_SUCCESS

\* The checks of the CP_SET_TARGET_POWER branch in the order of the code
set_target_power_result(conn_state, value) ==
    IF ~get_has_control(conn_state) THEN RESPONSE_CONTROL_NOT_PERMITTED
    ELSE IF Len(value) < 3 THEN RESPONSE_INVALID_PARAMETER
    ELSE IF power_out_of_range(unpack_h(slice_1_3(value)))
         THEN RESPONSE_INVALID_PARAMETER
    ELSE RESPONSE_SUCCESS

\* mutant: Stop and Pause are exchanged
stop_or_pause_status_swapped(value) ==
    IF Len(value) < 2 THEN 0
    ELSE IF value[2] = 1 THEN STATUS_PAUSED
    ELSE IF value[2] = 2 THEN STATUS_IDLE
    ELSE 0

\* The CP_STOP_OR_PAUSE branch: new_status, or 0 where the branch answers
\* RESPONSE_INVALID_PARAMETER and returns
stop_or_pause_status(value) ==
    IF Len(value) < 2 THEN 0
    ELSE IF value[2] = 1 THEN STATUS_IDLE
    ELSE IF value[2] = 2 THEN STATUS_PAUSED
    ELSE 0

\* mutant: SetTargetSpeed is dispatched to the SetTargetPower branch
branch_of_speed_as_power(op_code) ==
    IF op_code = CP_REQUEST_CONTROL THEN "request_control"
    ELSE IF op_code = CP_RESET THEN "reset"
    ELSE IF op_code = CP_SET_TARGET_RESISTANCE THEN "set_target_resistance"
    ELSE IF op_code = CP_SET_TARGET_POWER \/ op_code = CP_SET_TARGET_SPEED
         THEN "set_target_power"
    ELSE IF op_code = CP_START_OR_RESUME THEN "start_or_resume"
    ELSE IF op_code = CP_STOP_OR_PAUSE THEN "stop_or_pause"
    ELSE "unsupported"

\* the if/elif chain on op_code
branch_of(op_code) ==
    IF op_code = CP_REQUEST_CONTROL THEN "request_control"
    ELSE IF op_code = CP_RESET THEN "reset"
    ELSE IF op_code = CP_SET_TARGET_RESISTANCE THEN "set_target_resistance"
    ELSE IF op_code = CP_SET_TARGET_POWER THEN "set_target_power"
    ELSE IF op_code = CP_START_OR_RESUME THEN "start_or_resume"
    ELSE IF op_code = CP_STOP_OR_PAUSE THEN "stop_or_pause"
    ELSE "unsupported"

\* "await send_control_point_response(...)": the indication is handed to the
\* transport and the handler is suspended until the transport completes it
respond(connection, value, request_op_code, response_code) ==
    /\ last_write' = [conn |-> connection, value |-> value,
                      response |-> send_control_point_response(connection, request_op_code, response_code),
                      to |-> indicate_to(connection)]
    /\ awaiting_indication' = awaiting_indication + 1

\* mutant: the connection state is looked up before the empty value returns
cp_empty_after_lookup(connection, value) ==
    /\ value = <<>>
    /\ last_write' = [conn |-> connection, value |-> value, response |-> <<>>, to |-> 0]
    /\ connection_states' = get_or_init(connection)
    /\ UNCHANGED <<MachineState, awaiting_indication>>

\* "if not value: return"
cp_empty(connection, value) ==
    /\ value = <<>>
    /\ last_write' = [conn |-> connection, value |-> value, response |-> <<>>, to |-> 0]
    /\ UNCHANGED <<MachineState, connection_states, awaiting_indication>>

\* mutant: the grant is stored in every entry instead of the writer's
cp_request_control_shared(connection, value) ==
    /\ connection_states' =
           [c \in DOMAIN get_or_init(connection) |-> grant_control(get_or_init(connection)[c])]
    /\ respond(connection, value, CP_REQUEST_CONTROL, RESPONSE_SUCCESS)
    /\ UNCHANGED MachineState

\* the CP_REQUEST_CONTROL branch
cp_request_control(connection, value) ==
    /\ connection_states' =
           [get_or_init(connection) EXCEPT ![connection] = grant_control(@)]
    /\ respond(connection, value, CP_REQUEST_CONTROL, RESPONSE_SUCCESS)
    /\ UNCHANGED MachineState

\* mutant: Reset also revokes the issuer's control
cp_reset_revoking(connection, value) ==
    /\ connection_states' =
           [get_or_init(connection) EXCEPT ![connection].has_control = FALSE]
    /\ current_resistance' = 0
    /\ current_power' = 100
    /\ training_status' = STATUS_IDLE
    /\ respond(connection, value, CP_RESET, RESPONSE_SUCCESS)
    /\ UNCHANGED <<current_speed, current_cadence, current_hr>>

\* the CP_RESET branch
cp_reset(connection, value) ==
    /\ connection_states' = get_or_init(connection)
    /\ current_resistance' = 0
    /\ current_power' = 100
    /\ training_status' = STATUS_IDLE
    /\ respond(connection, value, CP_RESET, RESPONSE_SUCCESS)
    /\ UNCHANGED <<current_speed, current_cadence, current_hr>>

cp_set_target_resistance(connection, value) ==
    LET conn_state == get_or_init(connection)[connection]
        result == set_target_resistance_result(conn_state, value)
        resistance == unpack_h(slice_1_3(value))
    IN  /\ connection_states' = get_or_init(connection)
        /\ IF result = RESPONSE_SUCCESS
           THEN /\ current_resistance' = resistance
                /\ current_power' = derived_power(resistance)
           ELSE UNCHANGED <<current_resistance, current_power>>
        /\ respond(connection, value, CP_SET_TARGET_RESISTANCE, result)
        /\ UNCHANGED <<current_speed, current_cadence, current_hr, training_status>>

cp_set_target_power(connection, value) ==
    LET conn_state == get_or_init(connection)[connection]
        result == set_target_power_result(conn_state, value)
        power == unpack_h(slice_1_3(value))
    IN  /\ connection_states' = get_or_init(connection)
        /\ IF result = RESPONSE_SUCCESS
           THEN current_power' = power
           ELSE UNCHANGED current_power
        /\ respond(connection, value, CP_SET_TARGET_POWER, result)
        /\ UNCHANGED <<current_resistance, current_speed, current_cadence,
                       current_hr, training_status>>

\* mutant: StartOrResume is refused to a connection without control
cp_start_or_resume_needing_control(connection, value) ==
    LET conn_state == get_or_init(connection)[connection]
    IN  /\ connection_states' = get_or_init(connection)
        /\ IF get_has_control(conn_state)
           THEN /\ training_status' = STATUS_ACTIVE
                /\ respond(connection, value, CP_START_OR_RESUME, RESPONSE_SUCCESS)
           ELSE /\ UNCHANGED training_status
                /\ respond(connection, value, CP_START_OR_RESUME, RESPONSE_CONTROL_NOT_PERMITTED)
        /\ UNCHANGED <<current_resistance, current_power, current_speed,
                       current_cadence, current_hr>>

\* the CP_START_OR_RESUME branch
cp_start_or_resume(connection, value) ==
    /\ connection_states' = get_or_init(connection)
    /\ training_status' = STATUS_ACTIVE
    /\ respond(connection, value, CP_START_OR_RESUME, RESPONSE_SUCCESS)
    /\ UNCHANGED <<current_resistance, current_power, current_speed,
                   current_cadence, current_hr>>

cp_stop_or_pause(connection, value) ==
    LET new_status == stop_or_pause_status(value)
    IN  /\ connection_states' = get_or_init(connection)
        /\ IF new_status = 0
           THEN /\ UNCHANGED training_status
                /\ respond(connection, value, CP_STOP_OR_PAUSE, RESPONSE_INVALID_PARAMETER)
           ELSE /\ training_status' = new_status
                /\ respond(connection, value, CP_STOP_OR_PAUSE, RESPONSE_SUCCESS)
        /\ UNCHANGED <<current_resistance, current_power, current_speed,
                       current_cadence, current_hr>>

cp_unsupported(connection, value) ==
    /\ connection_states' = get_or_init(connection)
    /\ respond(connection, value, value[1], RESPONSE_NOT_SUPPORTED)
    /\ UNCHANGED MachineState

\* One invocation of the handler, up to its await (the handler has no await
\* before the one in send_control_point_response, so this part runs without
\* interleaving on the event loop).
on_control_point_write(connection, value) ==
    IF value = <<>> THEN cp_empty(connection, value)
       ELSE LET branch == branch_of(value[1])
            IN  CASE branch = "request_control" -> cp_request_control(connection, value)
                  [] branch = "reset" -> cp_reset(connection, value)
                  [] branch = "set_target_resistance" -> cp_set_target_resistance(connection, value)
                  [] branch = "set_target_power" -> cp_set_target_power(connection, value)
                  [] branch = "start_or_resume" -> cp_start_or_resume(connection, value)
                  [] branch = "stop_or_pause" -> cp_stop_or_pause(connection, value)
                  [] OTHER -> cp_unsupported(connection, value)

\* "control_point_char.write_value = on_control_point_write": the GATT
\* server calls the handler for a write of a connection
write_value(connection, value) ==
    /\ awaiting_indication < MaxInFlight
    /\ on_control_point_write(connection, value)
    /\ UNCHANGED <<telemetry_vars, transport_vars>>

\* connection.indicate_characteristic completes (or raises, which
\* send_control_point_response catches): a suspended handler returns
indication_done ==
    /\ awaiting_indication > 0
    /\ awaiting_indication' = awaiting_indication - 1
    /\ UNCHANGED <<MachineState, connection_states, last_write>>
    /\ UNCHANGED <<telemetry_vars, transport_vars>>

(* -------------------------- telemetry loop ----------------------------- *)
\* struct.pack("<H", v) for v in 0..65535
pack_H(v) == <<v % 256, v \div 256>>

\* struct.pack("<B", v) for v in 0..255
pack_B(v) == <<v>>

\* flags | (1 << n)
or_bit(flags, n) ==
    IF (flags \div (2 ^ n)) % 2 = 1 THEN flags ELSE flags + 2 ^ n

\* b''.join(data_list)
RECURSIVE join(_)
join(data_list) ==
    IF data_list = <<>> THEN <<>>
    ELSE Head(data_list) \o join(Tail(data_list))

\* mutant: the heart-rate byte is appended whether or not its flag is set
generate_indoor_bike_data_hr_always ==
    LET flags_speed == or_bit(0, 1)
        flags_cadence == or_bit(flags_speed, 2)
        flags_power == or_bit(flags_cadence, 5)
        list_power == <<pack_H(current_speed), pack_H(current_cadence),
                        pack_h(current_power)>>
        flags == IF current_hr > 0 THEN or_bit(flags_power, 4) ELSE flags_power
        data_list == Append(list_power, pack_B(current_hr))
    IN  pack_H(flags) \o join(data_list)

\* generate_indoor_bike_data(): the flags word, then speed, cadence, power and,
\* if current_hr > 0, the heart rate
generate_indoor_bike_data ==
    LET flags_speed == or_bit(0, 1)
        flags_cadence == or_bit(flags_speed, 2)
        flags_power == or_bit(flags_cadence, 5)
        list_power == <<pack_H(current_speed), pack_H(current_cadence),
                        pack_h(current_power)>>
        flags == IF current_hr > 0 THEN or_bit(flags_power, 4) ELSE flags_power
        data_list == IF current_hr > 0
                     THEN Append(list_power, pack_B(current_hr))
                     ELSE list_power
    IN  pack_H(flags) \o join(data_list)

\* list(device.connections.values()): the open connections in the order of
\* their handles
RECURSIVE connection_values(_)
connection_values(open) ==
    IF open = {} THEN <<>>
    ELSE LET first == CHOOSE c \in open : \A d \in open : c <= d
         IN  <<first>> \o connection_values(open \ {first})

\* update_bike_data up to its first await: it returns at once while
\* indoor_bike_data_char is None, else it generates the packet once and
\* enters the loop over the connections.  It assigns no machine state: the
\* two assignments after its "global" statement are commented out.
update_bike_data ==
    /\ tick_pc = "sleep"
    /\ IF indoor_bike_data_char = "None"
       THEN UNCHANGED telemetry_vars
       ELSE /\ data' = generate_indoor_bike_data
            /\ snapshot' = <<current_speed, current_cadence, current_power,
                             current_hr>>
            /\ to_notify' = connection_values(connections)
            /\ notified' = <<>>
            /\ tick_pc' = "notify"
            /\ UNCHANGED indoor_bike_data_char
    /\ UNCHANGED MachineState

\* one turn of the "while True" loop: update_bike_data, then asyncio.sleep
periodic_update_task ==
    /\ update_bike_data
    /\ UNCHANGED <<connection_states, awaiting_indication, last_write>>
    /\ UNCHANGED transport_vars

\* mutant: the packet is generated again for every subscriber
notify_payload_regenerated ==
    generate_indoor_bike_data

\* the data argument of notify_characteristic: the packet generated before
\* the loop
notify_payload ==
    data

\* one turn of the "for connection" loop: a subscribed connection is
\* notified and the task is suspended until the notification is sent
notify_characteristic ==
    /\ tick_pc = "notify"
    /\ to_notify # <<>>
    /\ \E is_subscribed \in BOOLEAN :
           notified' = IF is_subscribed
                       THEN Append(notified,
                                   [to |-> Head(to_notify), data |-> notify_payload])
                       ELSE notified
    /\ to_notify' = Tail(to_notify)
    /\ UNCHANGED <<indoor_bike_data_char, tick_pc, data, snapshot>>
    /\ UNCHANGED <<MachineState, connection_states, awaiting_indication, last_write>>
    /\ UNCHANGED transport_vars

\* the loop is exhausted: update_bike_data returns and the task sleeps
update_bike_data_return ==
    /\ tick_pc = "notify"
    /\ to_notify = <<>>
    /\ tick_pc' = "sleep"
    /\ UNCHANGED <<indoor_bike_data_char, data, to_notify, notified, snapshot>>
    /\ UNCHANGED <<MachineState, connection_states, awaiting_indication, last_write>>
    /\ UNCHANGED transport_vars

Next ==
    \/ \E connection \in Connections, value \in WriteValues :
           write_value(connection, value)
    \/ indication_done
    \/ periodic_update_task

Spec == Init /\ [][Next]_vars

(* ------------------ generate_indoor_bike_data alone -------------------- *)
\* arguments of the encoder: the globals it reads, over the domain of their
\* struct formats
SpeedValues == {0, 1000, 65535}
CadenceValues == {0, 140, 511}
EncodedPowerValues == {0, 100, 2000}
HeartRateValues == {0, 1, 72, 255}

InitCodec ==
    /\ current_resistance = 0
    /\ current_power \in EncodedPowerValues
    /\ current_speed \in SpeedValues
    /\ current_cadence \in CadenceValues
    /\ current_hr \in HeartRateValues
    /\ training_status = STATUS_IDLE
    /\ connection_states = <<>>
    /\ InitTransport
    /\ InitTelemetry
    /\ indoor_bike_data_char = "None"

\* a call of generate_indoor_bike_data(), its result kept in data
generate_call ==
    /\ data' = generate_indoor_bike_data
    /\ UNCHANGED <<indoor_bike_data_char, tick_pc, to_notify, notified, snapshot>>
    /\ UNCHANGED <<MachineState, connection_states, awaiting_indication, last_write>>
    /\ UNCHANGED transport_vars

NextCodec ==
    generate_call

SpecCodec == InitCodec /\ [][NextCodec]_vars

(* ------------- telemetry with the characteristic in place -------------- *)
\* writes that change what a packet encodes, and the ones they depend on
TelemetryWrites ==
    { <<CP_REQUEST_CONTROL>>, <<CP_RESET>>,
      <<CP_SET_TARGET_RESISTANCE>> \o pack_h(100),
      <<CP_SET_TARGET_POWER>> \o pack_h(2000) }

\* update_bike_data for either value of the global it tests: None, as
\* run_server leaves it, or the Characteristic run_server builds
InitBikeData ==
    /\ InitGlobals
    /\ InitTransport
    /\ InitTelemetry
    /\ indoor_bike_data_char \in {"None", "Characteristic"}

NextBikeData ==
    \/ \E connection \in Connections, value \in TelemetryWrites :
           write_value(connection, value)
    \/ indication_done
    \/ periodic_update_task
    \/ notify_characteristic
    \/ update_bike_data_return

SpecBikeData == InitBikeData /\ [][NextBikeData]_vars

(* ------------- handler invocations that overlap at the await ----------- *)
\* one write of each kind: empty, granting, resetting, accepted and rejected
\* targets, status changes, unsupported
OverlappingWrites ==
    { <<>>, <<CP_REQUEST_CONTROL>>, <<CP_RESET>>,
      <<CP_SET_TARGET_RESISTANCE>> \o pack_h(100),
      <<CP_SET_TARGET_RESISTANCE>> \o pack_h(3001),
      <<CP_SET_TARGET_POWER>> \o pack_h(2000),
      <<CP_START_OR_RESUME>>, <<CP_STOP_OR_PAUSE, 2>>,
      <<CP_SET_TARGET_SPEED>> }

\* the GATT server calls the handler while earlier invocations, of this or
\* another connection, are suspended in indicate_characteristic: nothing in
\* on_control_point_write or run_server waits for them
write_value_overlapping(connection, value) ==
    /\ awaiting_indication < MaxSuspended
    /\ on_control_point_write(connection, value)
    /\ suspended' = IF value = <<>> THEN suspended
                    ELSE [suspended EXCEPT ![connection] = @ + 1]
    /\ UNCHANGED <<connections, pre_command, outcome>>
    /\ UNCHANGED telemetry_vars

\* mutant: an invocation assigns after its await
indicate_characteristic_returns_resetting(connection) ==
    /\ suspended[connection] > 0
    /\ suspended' = [suspended EXCEPT ![connection] = @ - 1]
    /\ awaiting_indication' = awaiting_indication - 1
    /\ current_power' = 100
    /\ UNCHANGED <<current_resistance, current_speed, current_cadence,
                   current_hr, training_status>>
    /\ UNCHANGED <<connection_states, last_write>>
    /\ UNCHANGED <<connections, pre_command, outcome>>
    /\ UNCHANGED telemetry_vars

\* the indication of a suspended invocation of the connection completes: the
\* invocation returns, no statement follows the await
indicate_characteristic_returns(connection) ==
    /\ suspended[connection] > 0
    /\ suspended' = [suspended EXCEPT ![connection] = @ - 1]
    /\ awaiting_indication' = awaiting_indication - 1
    /\ UNCHANGED <<MachineState, connection_states, last_write>>
    /\ UNCHANGED <<connections, pre_command, outcome>>
    /\ UNCHANGED telemetry_vars

NextOverlapping ==
    \/ \E connection \in Connections, value \in OverlappingWrites :
           write_value_overlapping(connection, value)
    \/ \E connection \in Connections :
           indicate_characteristic_returns(connection)
    \/ periodic_update_task

SpecOverlapping == Init /\ [][NextOverlapping]_vars

(* ----------------- an indication that fails to be sent ----------------- *)
FailingWrites ==
    { <<CP_REQUEST_CONTROL>>, <<CP_RESET>>,
      <<CP_SET_TARGET_POWER>> \o pack_h(2000),
      <<CP_START_OR_RESUME>>, <<CP_SET_TARGET_SPEED>> }

\* the handler is called for one write at a time; pre_command keeps the
\* machine state and the holders of control it starts from
write_value_alone(connection, value) ==
    /\ awaiting_indication = 0
    /\ on_control_point_write(connection, value)
    /\ pre_command' = [machine |-> MachineState,
                       control |-> {c \in Connections :
                                      /\ c \in DOMAIN connection_states
                                      /\ connection_states[c].has_control}]
    /\ outcome' = "pending"
    /\ UNCHANGED <<suspended, connections>>
    /\ UNCHANGED telemetry_vars

\* await connection.indicate_characteristic(...) returns normally
indicate_characteristic_sent ==
    /\ awaiting_indication > 0
    /\ awaiting_indication' = awaiting_indication - 1
    /\ outcome' = "sent"
    /\ UNCHANGED <<MachineState, connection_states, last_write>>
    /\ UNCHANGED <<suspended, connections, pre_command>>
    /\ UNCHANGED telemetry_vars

\* await connection.indicate_characteristic(...) raises: the except clause of
\* send_control_point_response logs the error and returns, so the handler's
\* own except clause is not entered, nothing further is sent and no
\* assignment is undone
indicate_characteristic_raises ==
    /\ awaiting_indication > 0
    /\ awaiting_indication' = awaiting_indication - 1
    /\ outcome' = "failed"
    /\ UNCHANGED <<MachineState, connection_states, last_write>>
    /\ UNCHANGED <<suspended, connections, pre_command>>
    /\ UNCHANGED telemetry_vars

NextFailing ==
    \/ \E connection \in Connections, value \in FailingWrites :
           write_value_alone(connection, value)
    \/ indicate_characteristic_sent
    \/ indicate_characteristic_raises

SpecFailing == Init /\ [][NextFailing]_vars

(* ------------------------ connections that close ----------------------- *)
ClosingWrites ==
    { <<CP_REQUEST_CONTROL>>, <<CP_RESET>>,
      <<CP_SET_TARGET_POWER>> \o pack_h(2000),
      <<CP_START_OR_RESUME>> }

\* the handler is called for a write of an open connection
write_value_open(connection, value) ==
    /\ connection \in connections
    /\ write_value(connection, value)

\* a connection closes and leaves device.connections.  run_server registers
\* no listener for it and no statement of the program removes a key of
\* connection_states, so no global changes.
disconnection(connection) ==
    /\ connection \in connections
    /\ connections' = connections \ {connection}
    /\ UNCHANGED <<MachineState, connection_states, awaiting_indication, last_write>>
    /\ UNCHANGED <<suspended, pre_command, outcome>>
    /\ UNCHANGED telemetry_vars

NextClosing ==
    \/ \E connection \in Connections, value \in ClosingWrites :
           write_value_open(connection, value)
    \/ indication_done
    \/ \E connection \in Connections : disconnection(connection)

SpecClosing == Init /\ [][NextClosing]_vars

TypeOK ==
    /\ current_resistance \in Int
    /\ current_power \in Int
    /\ training_status \in {STATUS_IDLE, STATUS_ACTIVE, STATUS_PAUSED, STATUS_COMPLETED}
    /\ DOMAIN connection_states \subseteq Connections
    /\ \A c \in DOMAIN connection_states : connection_states[c].has_control \in BOOLEAN
    /\ awaiting_indication \in 0..MaxInFlight

(* ======================================================================= *)
(* Properties                                                              *)
(* ======================================================================= *)
\* has_control as a peer sees it: false until an entry exists and grants it
HasControl(c) ==
    c \in DOMAIN connection_states /\ connection_states[c].has_control

\* has_control of c after the step
HasControlAfter(c) ==
    c \in DOMAIN connection_states' /\ connection_states'[c].has_control

\* a signed 16-bit little-endian number from its low and high byte
Sint16LE(lo, hi) ==
    IF lo + 256 * hi >= 32768 THEN lo + 256 * hi - 65536 ELSE lo + 256 * hi

Clamp(lo, hi, x) == IF x < lo THEN lo ELSE IF x > hi THEN hi ELSE x

\* the indication [0x80, op, result]
Indication(op, result) == <<128, op, result>>

\* A step is the handling of the write of value v by connection c when it
\* records that write and leaves one more handler awaiting its indication;
\* every handled non-empty write is such a step.
Handled(c, v) ==
    /\ c \in Connections
    /\ last_write'.conn = c
    /\ last_write'.value = v
    /\ awaiting_indication' = awaiting_indication + 1

\* the connection and the value of the write a step handles
Writer == last_write'.conn
Written == last_write'.value

\* C1: in every reachable state current_resistance lies in [0, 3000] and
\* current_power lies in [0, 2000].
C1_RangesHold ==
    /\ current_resistance \in 0..3000
    /\ current_power \in 0..2000

\* C1 witness: both targets stand at the upper limit of their range
C1_Witness ==
    /\ current_resistance = 3000
    /\ current_power = 2000

\* C2: a SetTargetResistance or SetTargetPower write from a connection whose
\* has_control is false, whatever its payload, is answered
\* [0x80, op, 0x05] and leaves the machine state as it was.
C2_NoControlRejected ==
    [][LET c == Writer
          v == Written
      IN  ( /\ Handled(c, v)
            /\ v # <<>>
            /\ v[1] \in {4, 5}
            /\ ~HasControl(c) )
          => /\ last_write'.response = Indication(v[1], 5)
             /\ MachineState' = MachineState]_vars

\* C2 witness: a well-formed, in-range SetTargetResistance from a connection
\* without control was refused after another connection had set resistance
C2_Witness ==
    /\ last_write.value = <<4, 100, 0>>
    /\ last_write.response = <<128, 4, 5>>
    /\ ~HasControl(last_write.conn)
    /\ current_resistance = 3000

\* C3: with has_control, a SetTargetResistance write of r in [0, 3000]
\* answers Success, sets current_resistance to r and current_power to
\* max(50, min(2000, 100 + floor(r/10))) whatever the power was; the
\* payload [0x04, 0x64, 0x00] gives resistance 100 and power 110.
C3_ResistanceApplied ==
    [][LET c == Writer
          v == Written
      IN  ( /\ Handled(c, v)
            /\ Len(v) >= 3
            /\ v[1] = 4
            /\ HasControl(c)
            /\ Sint16LE(v[2], v[3]) \in 0..3000 )
          => /\ last_write'.response = Indication(4, 1)
             /\ current_resistance' = Sint16LE(v[2], v[3])
             /\ current_power' = Clamp(50, 2000, 100 + (Sint16LE(v[2], v[3]) \div 10))
             /\ (v = <<4, 100, 0>> => current_resistance' = 100 /\ current_power' = 110)]_vars

\* C3 witness: the scenario write has been applied
C3_Witness ==
    /\ last_write.value = <<4, 100, 0>>
    /\ last_write.response = <<128, 4, 1>>
    /\ current_resistance = 100
    /\ current_power = 110

\* C4: with has_control, a SetTargetResistance write whose 2-byte payload
\* decodes below 0 or above 3000 answers InvalidParameter and leaves the
\* machine state as it was.
C4_ResistanceOutOfRange ==
    [][LET c == Writer
          v == Written
      IN  ( /\ Handled(c, v)
            /\ Len(v) = 3
            /\ v[1] = 4
            /\ HasControl(c)
            /\ Sint16LE(v[2], v[3]) \notin 0..3000 )
          => /\ last_write'.response = Indication(4, 3)
             /\ MachineState' = MachineState]_vars

\* C4 witness: resistance -1 was refused to a connection that has control
C4_Witness ==
    /\ last_write.value = <<4, 255, 255>>
    /\ last_write.response = <<128, 4, 3>>
    /\ HasControl(last_write.conn)
    /\ current_resistance = 100

\* C5: with has_control, a SetTargetPower write with at least 2 payload
\* bytes decoding to p answers Success and sets current_power to p, leaving
\* current_resistance and training_status, when 0 <= p <= 2000, and
\* otherwise answers InvalidParameter and leaves the machine state.
C5_PowerApplied ==
    [][LET c == Writer
          v == Written
      IN  ( /\ Handled(c, v)
            /\ Len(v) >= 3
            /\ v[1] = 5
            /\ HasControl(c) )
          => IF Sint16LE(v[2], v[3]) \in 0..2000
             THEN /\ last_write'.response = Indication(5, 1)
                  /\ current_power' = Sint16LE(v[2], v[3])
                  /\ current_resistance' = current_resistance
                  /\ training_status' = training_status
             ELSE /\ last_write'.response = Indication(5, 3)
                  /\ MachineState' = MachineState]_vars

\* C5 witness: power 2000 was set while resistance stayed at 100
C5_Witness ==
    /\ last_write.value = <<5, 208, 7>>
    /\ last_write.response = <<128, 5, 1>>
    /\ current_power = 2000
    /\ current_resistance = 100
    /\ training_status = STATUS_ACTIVE

\* the supported range of the target that op code 4 or 5 sets
TargetRange(op) == IF op = 4 THEN 0..3000 ELSE 0..2000

\* the result of the first applicable failure in the order authorization,
\* payload length, value range; Success (1) when none applies
FirstFailure(hasControl, v) ==
    IF ~hasControl THEN 5
    ELSE IF Len(v) - 1 < 2 THEN 3
    ELSE IF Sint16LE(v[2], v[3]) \notin TargetRange(v[1]) THEN 3
    ELSE 1

\* C6: for SetTargetResistance and SetTargetPower the result reported is the
\* first applicable failure in the order authorization, payload length,
\* value range, a function of has_control and the payload alone, and no
\* failure response changes the machine state.
C6_ValidationOrder ==
    [][LET c == Writer
          v == Written
      IN  ( /\ Handled(c, v)
            /\ v # <<>>
            /\ v[1] \in {4, 5} )
          => /\ last_write'.response = Indication(v[1], FirstFailure(HasControl(c), v))
             /\ (FirstFailure(HasControl(c), v) # 1 => MachineState' = MachineState)]_vars

\* C6 witness: a SetTargetPower write that is both unauthorized and too
\* short was answered ControlNotPermitted
C6_Witness ==
    /\ last_write.value = <<5, 100>>
    /\ last_write.response = <<128, 5, 5>>
    /\ ~HasControl(last_write.conn)

\* C7: a write whose op code is none of 0x00, 0x01, 0x04, 0x05, 0x07, 0x08
\* is answered [0x80, op, 0x02] and changes neither the machine state nor
\* the has_control of any connection.
C7_NotSupported ==
    [][LET c == Writer
          v == Written
      IN  ( /\ Handled(c, v)
            /\ v # <<>>
            /\ v[1] \notin {0, 1, 4, 5, 7, 8} )
          => /\ last_write'.response = Indication(v[1], 2)
             /\ MachineState' = MachineState
             /\ \A d \in Connections : HasControlAfter(d) = HasControl(d)]_vars

\* C7 witness: SetTargetSpeed (0x02) from a connection that has control was
\* answered NotSupported
C7_Witness ==
    /\ last_write.value = <<2, 100, 0>>
    /\ last_write.response = <<128, 2, 2>>
    /\ HasControl(last_write.conn)

\* C8: RequestControl always answers Success, leaves the issuer's
\* has_control true, also when it was true already, and never changes the
\* machine state.
C8_RequestControlIdempotent ==
    [][LET c == Writer
          v == Written
      IN  ( /\ Handled(c, v)
            /\ v # <<>>
            /\ v[1] = 0 )
          => /\ last_write'.response = Indication(0, 1)
             /\ HasControlAfter(c)
             /\ MachineState' = MachineState]_vars

\* C8 witness: control was requested and is held while the machine state
\* differs from the startup one
C8_Witness ==
    /\ last_write.value = <<0>>
    /\ last_write.response = <<128, 0, 1>>
    /\ HasControl(last_write.conn)
    /\ current_resistance = 100
    /\ training_status = STATUS_PAUSED

\* C9: StopOrPause, whatever the training status and has_control, sets
\* training_status to Idle on sub-value 0x01 and to Paused on 0x02 and
\* answers Success; without a sub-value or with another one it answers
\* InvalidParameter and leaves training_status; resistance and power are
\* unchanged in every case.
C9_StopOrPause ==
    [][LET c == Writer
          v == Written
      IN  ( /\ Handled(c, v)
            /\ v # <<>>
            /\ v[1] = 8 )
          => /\ current_resistance' = current_resistance
             /\ current_power' = current_power
             /\ IF Len(v) >= 2 /\ v[2] = 1
                THEN training_status' = 1 /\ last_write'.response = Indication(8, 1)
                ELSE IF Len(v) >= 2 /\ v[2] = 2
                THEN training_status' = 3 /\ last_write'.response = Indication(8, 1)
                ELSE /\ training_status' = training_status
                     /\ last_write'.response = Indication(8, 3)]_vars

\* C9 witness: a connection without control paused the session while the
\* resistance set by another connection stayed
C9_Witness ==
    /\ last_write.value = <<8, 2>>
    /\ last_write.response = <<128, 8, 1>>
    /\ training_status = 3
    /\ ~HasControl(last_write.conn)
    /\ current_resistance = 3000

\* C10: Reset, from any connection and state, answers Success, sets
\* resistance to 0, power to 100 and training_status to Idle and leaves
\* speed, cadence, heart rate and the has_control of every connection.
C10_Reset ==
    [][LET c == Writer
          v == Written
      IN  ( /\ Handled(c, v)
            /\ v # <<>>
            /\ v[1] = 1 )
          => /\ last_write'.response = Indication(1, 1)
             /\ current_resistance' = 0
             /\ current_power' = 100
             /\ training_status' = 1
             /\ current_speed' = current_speed
             /\ current_cadence' = current_cadence
             /\ current_hr' = current_hr
             /\ \A d \in Connections : HasControlAfter(d) = HasControl(d)]_vars

\* C10 witness: a connection that holds control has reset the machine and
\* still holds control
C10_Witness ==
    /\ last_write.value = <<1>>
    /\ last_write.response = <<128, 1, 1>>
    /\ current_resistance = 0
    /\ current_power = 100
    /\ training_status = 1
    /\ HasControl(last_write.conn)

\* A step in which the handler received a write: it records another write
\* than the last one, or it starts another indication.
Received ==
    \/ last_write' # last_write
    \/ awaiting_indication' = awaiting_indication + 1

\* C11: an empty write sends no response, leaves the machine state, creates
\* no connection_states entry and changes none.
C11_EmptyWriteIgnored ==
    [][(Received /\ Written = <<>>)
          => /\ last_write'.response = <<>>
             /\ last_write'.to = 0
             /\ awaiting_indication' = awaiting_indication
             /\ MachineState' = MachineState
             /\ connection_states' = connection_states]_vars

\* C11 witness: a connection that was never seen wrote an empty value after
\* another one had changed the machine state, and still has no entry
C11_Witness ==
    /\ last_write.value = <<>>
    /\ last_write.conn \in Connections
    /\ last_write.conn \notin DOMAIN connection_states
    /\ last_write.response = <<>>
    /\ current_resistance = 100
    /\ awaiting_indication = 0

\* C12: every non-empty write starts exactly one indication, to the writing
\* connection, of the form [0x80, first byte of the write, result] with
\* result in 0x01..0x05.
C12_OneIndicationPerWrite ==
    [][(Received /\ Written # <<>>)
          => /\ awaiting_indication' = awaiting_indication + 1
             /\ last_write'.to = Writer
             /\ Len(last_write'.response) = 3
             /\ last_write'.response[1] = 128
             /\ last_write'.response[2] = Written[1]
             /\ last_write'.response[3] \in 1..5]_vars

\* C12 witness: a write of the undeclared op code 0xFF was answered to its
\* writer with that op code
C12_Witness ==
    /\ last_write.value = <<255>>
    /\ last_write.conn \in Connections
    /\ last_write.to = last_write.conn
    /\ last_write.response = <<128, 255, 2>>
    /\ awaiting_indication = 1

\* C15: has_control of a connection becomes true exactly by a RequestControl
\* write of that connection and never changes otherwise, so it is true iff
\* the connection itself has requested control; a SetTarget write of a
\* connection without control is refused while another one holds control.
C15_ControlPerConnection ==
    [][/\ \A d \in Connections :
             HasControlAfter(d) =
                 ( \/ HasControl(d)
                   \/ (Received /\ Writer = d /\ Written # <<>> /\ Written[1] = 0) )
       /\ ( /\ Received
            /\ Written # <<>>
            /\ Written[1] \in {4, 5}
            /\ ~HasControl(Writer)
            /\ \E d \in Connections : HasControl(d) )
          => last_write'.response = Indication(Written[1], 5)]_vars

\* C15 witness: connection 2 was refused SetTargetPower while connection 1
\* holds control and connection 2 does not
C15_Witness ==
    /\ last_write.conn = 2
    /\ last_write.value = <<5, 208, 7>>
    /\ last_write.response = <<128, 5, 5>>
    /\ HasControl(1)
    /\ ~HasControl(2)
    /\ 2 \in DOMAIN connection_states

\* the training status a handled write sets, 0 if it sets none
StatusSetBy(v) ==
    IF v = <<>> THEN 0
    ELSE IF v[1] = 1 THEN 1
    ELSE IF v[1] = 7 THEN 2
    ELSE IF v[1] = 8 /\ Len(v) >= 2 /\ v[2] = 1 THEN 1
    ELSE IF v[1] = 8 /\ Len(v) >= 2 /\ v[2] = 2 THEN 3
    ELSE 0

\* C20: training_status starts Idle, is always Idle, Active or Paused and
\* is changed only by a successful status command, to the value of that
\* command: Reset and Stop give Idle, StartOrResume gives Active, Pause
\* gives Paused; StartOrResume succeeds whatever the status and has_control.
C20_TrainingStatus ==
    /\ training_status = 1
    /\ [](training_status \in {1, 2, 3})
    /\ [][/\ IF Received /\ StatusSetBy(Written) # 0
             THEN /\ training_status' = StatusSetBy(Written)
                  /\ last_write'.response = Indication(Written[1], 1)
             ELSE training_status' = training_status
          /\ (Received /\ Written # <<>> /\ Written[1] = 7)
                => last_write'.response = Indication(7, 1)]_vars

\* C20 witness: a connection without control resumed a paused session
C20_Witness ==
    /\ last_write.value = <<7>>
    /\ last_write.response = <<128, 7, 1>>
    /\ training_status = 2
    /\ ~HasControl(last_write.conn)
    /\ current_resistance = 15

(* ---------------------------- C17 -------------------------------------- *)
\* an unsigned 16-bit little-endian number from its low and high byte
Uint16LE(lo, hi) == lo + 256 * hi

\* bit n of a flags word
FlagBit(flags, n) == (flags \div (2 ^ n)) % 2 = 1

\* C17: every packet of generate_indoor_bike_data starts with a 16-bit
\* little-endian flags word whose bits are exactly those of the fields that
\* follow, in the order speed (u16), cadence (u16), power (i16), heart rate
\* (u8); the heart-rate bit is set and the packet has 9 bytes iff
\* current_hr > 0, else the bit is clear and the packet has 8 bytes; the
\* length is 2 plus the sizes of the flagged fields.
C17_IndoorBikeData ==
    data # <<>> =>
        LET flags == Uint16LE(data[1], data[2])
            FieldSize(n) == IF ~FlagBit(flags, n) THEN 0
                            ELSE IF n = 4 THEN 1 ELSE 2
        IN  /\ \A n \in 0..15 : FlagBit(flags, n) <=>
                   (n \in {1, 2, 5} \/ (n = 4 /\ current_hr > 0))
            /\ Len(data) = 2 + FieldSize(1) + FieldSize(2) + FieldSize(5)
                             + FieldSize(4)
            /\ Len(data) = IF current_hr > 0 THEN 9 ELSE 8
            /\ Uint16LE(data[3], data[4]) = current_speed
            /\ Uint16LE(data[5], data[6]) = current_cadence
            /\ Sint16LE(data[7], data[8]) = current_power
            /\ current_hr > 0 => data[9] = current_hr
            /\ \A i \in 1..Len(data) : data[i] \in 0..255

\* C17 witness: a packet with the heart rate, 9 bytes long, flags 0x0036
C17_Witness ==
    /\ current_hr = 72
    /\ current_speed = 1000
    /\ current_power = 2000
    /\ data = <<54, 0, 232, 3, 140, 0, 208, 7, 72>>

(* ---------------------------- C19 -------------------------------------- *)
\* the Indoor Bike Data packet of one set of values
PacketOf(speed, cadence, power, hr) ==
    <<IF hr > 0 THEN 54 ELSE 38, 0,
      speed % 256, speed \div 256,
      cadence % 256, cadence \div 256,
      (power % 65536) % 256, (power % 65536) \div 256>>
    \o (IF hr > 0 THEN <<hr>> ELSE <<>>)

\* what C19 requires of a step: a tick starts from the values of the state
\* it starts in, keeps them while it notifies, and no step of the tick
\* assigns machine state or authorization
TickReadsOneState ==
    /\ (tick_pc = "sleep" /\ tick_pc' = "notify")
          => /\ snapshot' = <<current_speed, current_cadence, current_power,
                              current_hr>>
             /\ notified' = <<>>
    /\ (tick_pc = "notify" /\ tick_pc' = "notify")
          => snapshot' = snapshot
    /\ (tick_pc' # tick_pc \/ notified' # notified \/ to_notify' # to_notify)
          => UNCHANGED <<MachineState, connection_states>>

\* C19: the tick assigns no machine state; the packet of a tick encodes the
\* speed, cadence, power and heart rate of the one state in which the tick
\* started, and every subscriber notified in that tick receives that same
\* packet, whatever commands are handled while the tick awaits a notification.
C19_TelemetrySnapshot ==
    /\ [](\A i \in 1..Len(notified) :
             /\ notified[i].data = PacketOf(snapshot[1], snapshot[2],
                                            snapshot[3], snapshot[4])
             /\ notified[i].data = notified[1].data)
    /\ [][TickReadsOneState]_vars

\* C19 witness: two subscribers were notified in one tick although a command
\* changed current_power after the tick had started
C19_Witness ==
    /\ tick_pc = "notify"
    /\ Len(notified) = 2
    /\ notified[1].to # notified[2].to
    /\ snapshot[3] = 100
    /\ current_power = 2000

(* ---------------------------- C13 -------------------------------------- *)
\* C13: when handling a recognized op code fails, here while the response is
\* being sent after the assignments, the response given to the peer for that
\* op code is OperationFailed and the machine state and has_control are what
\* they were before the command.
C13_FailureRollsBack ==
    outcome = "failed" =>
        /\ last_write.response = Indication(last_write.value[1], 4)
        /\ MachineState = pre_command.machine
        /\ {c \in Connections : HasControl(c)} = pre_command.control

(* ---------------------------- C14 -------------------------------------- *)
\* C14: the connections that have an entry in connection_states are always
\* among the open connections: the entry of a connection, and with it its
\* control grant, is removed when the connection closes.
C14_EntriesOfOpenConnections ==
    DOMAIN connection_states \subseteq connections

(* ---------------------------- C16 -------------------------------------- *)
\* C16: for every connection the handler does not start on a command while
\* the indication of an earlier command of the same connection has not
\* completed, so at most one invocation per connection is ever suspended in
\* its indication and the responses leave in the order of the commands.
C16_OnePendingPerConnection ==
    \A c \in Connections : suspended[c] <= 1

(* ---------------------------- C18 -------------------------------------- *)
\* the machine state and the has_control map that handling the write v of
\* connection c alone, from start to end, produces from the current state
SerialResult(c, v) ==
    LET op == v[1]
        target == Sint16LE(v[2], v[3])
        accepted == /\ op \in {4, 5}
                    /\ FirstFailure(HasControl(c), v) = 1
    IN  [ resistance |-> IF op = 1 THEN 0
                         ELSE IF op = 4 /\ accepted THEN target
                         ELSE current_resistance,
          power      |-> IF op = 1 THEN 100
                         ELSE IF op = 4 /\ accepted
                              THEN Clamp(0, 2000, 100 + target \div 10)
                         ELSE IF op = 5 /\ accepted THEN target
                         ELSE current_power,
          status     |-> IF StatusSetBy(v) = 0 THEN training_status
                         ELSE StatusSetBy(v),
          control    |-> {d \in Connections : HasControl(d) \/ (op = 0 /\ d = c)} ]

\* C18: with any number of invocations suspended at their await, a step of
\* the handler applies the whole effect of its own command to the state the
\* earlier commands left, exactly as if the commands ran one at a time in
\* the order of these steps, and a step in which a suspended invocation
\* resumes changes neither the machine state nor has_control.
C18_Serializable ==
    [][IF awaiting_indication' = awaiting_indication + 1
       THEN LET after == SerialResult(Writer, Written)
            IN  /\ current_resistance' = after.resistance
                /\ current_power' = after.power
                /\ training_status' = after.status
                /\ {d \in Connections : HasControlAfter(d)} = after.control
                /\ UNCHANGED <<current_speed, current_cadence, current_hr>>
       ELSE /\ UNCHANGED MachineState
            /\ \A d \in Connections : HasControlAfter(d) <=> HasControl(d)]_vars

\* C18 witness: two connections each have an invocation suspended, and the
\* state holds the complete effect of both their commands
C18_Witness ==
    /\ suspended[1] = 1
    /\ suspended[2] = 1
    /\ HasControl(1)
    /\ ~HasControl(2)
    /\ current_power = 2000
    /\ training_status = 2
    /\ last_write.conn = 2
    /\ last_write.value = <<7>>

====
